---- MODULE Spec2Model ----
(***************************************************************************)
(* Model of src/decomposed_pdf.py: the DecomposedPDF visual extraction     *)
(* (embedded image selection, vector region detection with the rectangle   *)
(* merger, and region rasterization).                                      *)
(*                                                                         *)
(* A rectangle is a tuple <<x0, y0, x1, y1>> (fitz.Rect).  Coordinates are *)
(* integers; areas and IoU ratios are kept exact (IoU as a fraction).      *)
(***************************************************************************)
EXTENDS Integers, Sequences, FiniteSets, TLC

VARIABLES
    \* ---- _merge_rects(rects, iou_threshold) ----
    input,      \* the argument list, as passed by the caller
    rects,      \* local `rects` (working list)
    out,        \* local `out` (accumulator of the current pass)
    changed,    \* local `changed`
    mpc,        \* position: "outer" (while changed), "inner" (while rects), "done", "idle"
    result,     \* the returned list
    passes,     \* number of passes of the outer loop completed so far
    passStart,  \* Len(rects) when the current pass began
    passMerges, \* number of merges performed in the current pass
    \* ---- extract_embedded_images ----
    imagePages,           \* page.get_images() of every page: the xrefs, in discovery order
    max_images_per_page,  \* field max_images_per_page
    max_total_images,     \* field max_total_images
    embedded_images,      \* field embedded_images
    selected,             \* local `selected`
    total,                \* local `total`
    page_index,           \* loop variable of `for page_index in range(len(doc))`
    ipc,                  \* position: "pages" (in the loop), "assign", "done", "raised", "idle"
    \* ---- detect_vector_regions ----
    drawPages,                    \* page.get_drawings() of every page: the "rect" of each drawing
    max_vector_regions_per_page,  \* field max_vector_regions_per_page
    max_vector_regions_total,     \* field max_vector_regions_total
    vector_regions,               \* field vector_regions
    regions,                      \* local `regions`
    vtotal,                       \* local `total`
    vpage_index,                  \* loop variable of `for page_index in range(len(doc))`
    vpc,                          \* position: "pages", "assign", "done", "idle"
    \* ---- render_vector_regions ----
    page_count,   \* len(doc)
    vector_clips, \* field vector_clips
    clips,        \* local `out`
    ridx,         \* position of the for loop in vector_regions (1-based)
    rfailed,      \* positions of vector_regions whose rasterization raised
    rpc           \* position: "start", "loop", "done", "idle"

mergeVars == <<input, rects, out, changed, mpc, result, passes, passStart, passMerges>>

imageVars == <<imagePages, max_images_per_page, max_total_images, embedded_images,
               selected, total, page_index, ipc>>

vectorVars == <<drawPages, max_vector_regions_per_page, max_vector_regions_total,
                vector_regions, regions, vtotal, vpage_index, vpc>>

renderVars == <<page_count, vector_clips, clips, ridx, rfailed, rpc>>

vars == <<mergeVars, imageVars, vectorVars, renderVars>>

-----------------------------------------------------------------------------
(* Bounds of the model *)

\* longest rectangle list handed to _merge_rects
MaxRects == 3

\* most pages of a document
MaxPages == 2

\* most image references (drawings, regions) of a document, over all its pages
MaxItems == 3

\* largest value of a cap (max_images_per_page, max_total_images, ...)
MaxCap == 2

\* longest vector_regions list handed to render_vector_regions
MaxRegions == 2

\* page coordinates used for the rectangles handed to _merge_rects; the wide last
\* column lets two rectangles overlap with an IoU below the threshold
\* (<<0, 0, 2, 2>> and <<1, 1, 5, 2>>: 1/7)
XCoords == {0, 1, 2, 5}
YCoords == {0, 1, 2}

-----------------------------------------------------------------------------
(* Helpers *)

Max(a, b) == IF a >= b THEN a ELSE b

Min(a, b) == IF a <= b THEN a ELSE b

SetMin(S) == CHOOSE x \in S : \A y \in S : x <= y

RECURSIVE SeqsUpTo(_, _)
SeqsUpTo(S, n) ==
    IF n = 0 THEN {<<>>}
    ELSE LET shorter == SeqsUpTo(S, n - 1)
         IN  shorter \cup {Append(s, x) : s \in {t \in shorter : Len(t) = n - 1}, x \in S}

Range(s) == {s[i] : i \in 1 .. Len(s)}

\* the documents: at most `pages` pages, each a list over S, `items` entries in all
RECURSIVE DocsOver(_, _, _)
DocsOver(S, pages, items) ==
    IF pages = 0 THEN {<<>>}
    ELSE {<<>>} \cup
         UNION {{<<pg>> \o d : d \in DocsOver(S, pages - 1, items - Len(pg))} :
                    pg \in SeqsUpTo(S, items)}

-----------------------------------------------------------------------------
(* The operations that are not running *)

MergeIdle ==
    /\ input = <<>> /\ rects = <<>> /\ out = <<>> /\ changed = FALSE /\ mpc = "idle"
    /\ result = <<>> /\ passes = 0 /\ passStart = 0 /\ passMerges = 0

ImageIdle ==
    /\ imagePages = <<>> /\ max_images_per_page = 0 /\ max_total_images = 0
    /\ embedded_images = <<>> /\ selected = <<>> /\ total = 0 /\ page_index = 0
    /\ ipc = "idle"

VectorIdle ==
    /\ drawPages = <<>> /\ max_vector_regions_per_page = 0 /\ max_vector_regions_total = 0
    /\ vector_regions = <<>> /\ regions = <<>> /\ vtotal = 0 /\ vpage_index = 0
    /\ vpc = "idle"

RenderIdle ==
    /\ page_count = 0 /\ vector_clips = <<>> /\ clips = <<>> /\ ridx = 0
    /\ rfailed = {} /\ rpc = "idle"

-----------------------------------------------------------------------------
(* fitz.Rect as used by the geometry helpers *)

\* variant of IsEmpty: a rectangle of zero width or height counts as non-empty
IsEmptyStrict(r) == r[1] > r[3] \/ r[2] > r[4]

\* Rect.is_empty: the rectangle has no area (x0 >= x1 or y0 >= y1)
IsEmpty(r) == r[1] >= r[3] \/ r[2] >= r[4]

\* Rect.get_area(): width * height, each max(0, x1 - x0)
GetArea(r) == Max(0, r[3] - r[1]) * Max(0, r[4] - r[2])

\* a & b (Rect.intersect): an empty operand is returned as it is
RectAnd(a, b) ==
    IF IsEmpty(b) THEN b
    ELSE IF IsEmpty(a) THEN a
    ELSE <<Max(a[1], b[1]), Max(a[2], b[2]), Min(a[3], b[3]), Min(a[4], b[4])>>

\* variant of RectOr: the entry is replaced by the popped rectangle
RectOrReplaces(a, b) == b

\* a | b (Rect.include_rect): an empty operand is ignored
RectOr(a, b) ==
    IF IsEmpty(b) THEN a
    ELSE IF IsEmpty(a) THEN b
    ELSE <<Min(a[1], b[1]), Min(a[2], b[2]), Max(a[3], b[3]), Max(a[4], b[4])>>

\* _expand_rect(r, pad)
ExpandRect(r, pad) == <<r[1] - pad, r[2] - pad, r[3] + pad, r[4] + pad>>

\* iou_threshold = 0.15, as the fraction IouThresholdNum / IouThresholdDen
IouThresholdNum == 15
IouThresholdDen == 100

\* _iou(a, b), as the fraction <<numerator, denominator>>
Iou(a, b) ==
    LET inter      == RectAnd(a, b)
        union_area == GetArea(a) + GetArea(b) - GetArea(inter)
    IN  IF IsEmpty(inter) THEN <<0, 1>>
        ELSE IF union_area > 0 THEN <<GetArea(inter), union_area>>
        ELSE <<0, 1>>

\* variant of ShouldMerge: the IoU test alone
ShouldMergeIouOnly(o, r) ==
    Iou(o, r)[1] * IouThresholdDen >= IouThresholdNum * Iou(o, r)[2]

\* the condition of line 183: _iou(out[i], r) >= iou_threshold or not (out[i] & r).is_empty
ShouldMerge(o, r) ==
    \/ Iou(o, r)[1] * IouThresholdDen >= IouThresholdNum * Iou(o, r)[2]
    \/ ~IsEmpty(RectAnd(o, r))

-----------------------------------------------------------------------------
(* _merge_rects *)

\* variant of PlaceRect: a merge does not set `changed`
PlaceRectNoFlag(acc, r) ==
    LET hits == {i \in 1 .. Len(acc) : ShouldMerge(acc[i], r)}
    IN  IF hits = {}
        THEN [out |-> Append(acc, r), merged |-> FALSE]
        ELSE [out |-> [acc EXCEPT ![SetMin(hits)] = RectOr(acc[SetMin(hits)], r)],
              merged |-> FALSE]

\* one iteration of `while rects:` after r = rects.pop(): the for loop over out
\* (the first entry that meets the condition is replaced by the union) and the
\* append when nothing merged
PlaceRect(acc, r) ==
    LET hits == {i \in 1 .. Len(acc) : ShouldMerge(acc[i], r)}
    IN  IF hits = {}
        THEN [out |-> Append(acc, r), merged |-> FALSE]
        ELSE [out |-> [acc EXCEPT ![SetMin(hits)] = RectOr(acc[SetMin(hits)], r)],
              merged |-> TRUE]

\* one whole pass of the outer loop: pops from the back until rects is empty
RECURSIVE MergePass(_, _, _)
MergePass(rs, acc, ch) ==
    IF rs = <<>> THEN [rects |-> acc, changed |-> ch]
    ELSE LET p == PlaceRect(acc, rs[Len(rs)])
         IN  MergePass(SubSeq(rs, 1, Len(rs) - 1), p.out, ch \/ p.merged)

\* _merge_rects as a function: passes until one of them merges nothing
RECURSIVE MergeRects(_)
MergeRects(rs) ==
    LET p == MergePass(rs, <<>>, FALSE)
    IN  IF p.changed THEN MergeRects(p.rects) ELSE p.rects

\* rectangles a caller may hand to _merge_rects: every rectangle of positive
\* area on the grid, and a zero-area one (a horizontal rule across the page)
PositiveRects ==
    {r \in (XCoords \X YCoords \X XCoords \X YCoords) : r[1] < r[3] /\ r[2] < r[4]}

ZeroAreaRects == {<<0, 1, 5, 1>>}

MergeInputs == PositiveRects \cup ZeroAreaRects

\* entry of _merge_rects: rects = rects[:], changed = True
MergeInit ==
    /\ input \in SeqsUpTo(MergeInputs, MaxRects)
    /\ rects = input
    /\ out = <<>>
    /\ changed = TRUE
    /\ mpc = "outer"
    /\ result = <<>>
    /\ passes = 0
    /\ passStart = Len(input)
    /\ passMerges = 0

\* `while changed:` taken: changed = False, out = []
MergeBeginPass ==
    /\ mpc = "outer"
    /\ changed
    /\ changed' = FALSE
    /\ out' = <<>>
    /\ mpc' = "inner"
    /\ passStart' = Len(rects)
    /\ passMerges' = 0
    /\ UNCHANGED <<input, rects, result, passes, imageVars, vectorVars, renderVars>>

\* one iteration of `while rects:`
MergePop ==
    /\ mpc = "inner"
    /\ rects # <<>>
    /\ LET r == rects[Len(rects)]
           p == PlaceRect(out, r)
       IN  /\ rects' = SubSeq(rects, 1, Len(rects) - 1)
           /\ out' = p.out
           /\ changed' = (changed \/ p.merged)
           /\ passMerges' = passMerges + (IF Len(p.out) = Len(out) THEN 1 ELSE 0)
    /\ UNCHANGED <<input, mpc, result, passes, passStart, imageVars, vectorVars, renderVars>>

\* `while rects:` exhausted: rects = out
MergeEndPass ==
    /\ mpc = "inner"
    /\ rects = <<>>
    /\ rects' = out
    /\ passes' = passes + 1
    /\ mpc' = "outer"
    /\ UNCHANGED <<input, out, changed, result, passStart, passMerges, imageVars, vectorVars, renderVars>>

\* `while changed:` not taken: return rects
MergeReturn ==
    /\ mpc = "outer"
    /\ ~changed
    /\ result' = rects
    /\ mpc' = "done"
    /\ UNCHANGED <<input, rects, out, changed, passes, passStart, passMerges, imageVars, vectorVars, renderVars>>

MergeNext == MergeBeginPass \/ MergePop \/ MergeEndPass \/ MergeReturn

InitMerge == MergeInit /\ ImageIdle /\ VectorIdle /\ RenderIdle

SpecMerge == InitMerge /\ [][MergeNext]_vars

-----------------------------------------------------------------------------
(* _merge_rects with the order of consumption left open: any rectangle of the  *)
(* working list may be popped, and it may be merged into any accumulator entry *)
(* that meets the condition of line 183, not only the first.  The code's order *)
(* (pop from the back, first matching entry) is one of the behaviours.         *)

\* a before b in the lexicographic order of the coordinates
RectBefore(a, b) ==
    \/ a[1] < b[1]
    \/ a[1] = b[1] /\ a[2] < b[2]
    \/ a[1] = b[1] /\ a[2] = b[2] /\ a[3] < b[3]
    \/ a[1] = b[1] /\ a[2] = b[2] /\ a[3] = b[3] /\ a[4] <= b[4]

\* entry of _merge_rects, one list for every multiset of rectangles (the pops
\* below take them in every order)
MergeInitAnyOrder ==
    /\ input \in {rs \in SeqsUpTo(MergeInputs, MaxRects) :
                     \A i \in 1 .. (Len(rs) - 1) : RectBefore(rs[i], rs[i + 1])}
    /\ rects = input
    /\ out = <<>>
    /\ changed = TRUE
    /\ mpc = "outer"
    /\ result = <<>>
    /\ passes = 0
    /\ passStart = Len(input)
    /\ passMerges = 0

\* one iteration of `while rects:` that pops the rectangle at any position k and
\* finds no accumulator entry to merge it into: it is appended
MergePopAnyAppend ==
    /\ mpc = "inner"
    /\ \E k \in 1 .. Len(rects) :
          /\ \A i \in 1 .. Len(out) : ~ShouldMerge(out[i], rects[k])
          /\ rects' = SubSeq(rects, 1, k - 1) \o SubSeq(rects, k + 1, Len(rects))
          /\ out' = Append(out, rects[k])
    /\ UNCHANGED <<input, changed, mpc, result, passes, passStart, passMerges,
                   imageVars, vectorVars, renderVars>>

\* one iteration of `while rects:` that pops the rectangle at any position k and
\* merges it into any accumulator entry i that meets the condition
MergePopAnyMerge ==
    /\ mpc = "inner"
    /\ \E k \in 1 .. Len(rects) :
          \E i \in 1 .. Len(out) :
              /\ ShouldMerge(out[i], rects[k])
              /\ rects' = SubSeq(rects, 1, k - 1) \o SubSeq(rects, k + 1, Len(rects))
              /\ out' = [out EXCEPT ![i] = RectOr(out[i], rects[k])]
    /\ changed' = TRUE
    /\ passMerges' = passMerges + 1
    /\ UNCHANGED <<input, mpc, result, passes, passStart,
                   imageVars, vectorVars, renderVars>>

MergeNextAnyOrder ==
    MergeBeginPass \/ MergePopAnyAppend \/ MergePopAnyMerge \/ MergeEndPass \/ MergeReturn

InitMergeAnyOrder == MergeInitAnyOrder /\ ImageIdle /\ VectorIdle /\ RenderIdle

SpecMergeAnyOrder == InitMergeAnyOrder /\ [][MergeNextAnyOrder]_vars

-----------------------------------------------------------------------------
(* extract_embedded_images *)

\* min_image_area and max_image_dim (defaults of the fields)
MinImageArea == 20000
MaxImageDim == 1400

\* doc.extract_image(xref) for the image objects of the document, by xref:
\* extracts = FALSE when extract_image raises; decodes = FALSE when PIL cannot open
\* the bytes
Images ==
    << [width |-> 400,  height |-> 300, ext |-> "png",  decodes |-> TRUE,  extracts |-> TRUE],
       [width |-> 2000, height |-> 100, ext |-> "jpeg", decodes |-> TRUE,  extracts |-> TRUE],
       [width |-> 100,  height |-> 100, ext |-> "png",  decodes |-> TRUE,  extracts |-> TRUE],
       [width |-> 300,  height |-> 200, ext |-> "jpx",  decodes |-> FALSE, extracts |-> TRUE],
       [width |-> 0,    height |-> 0,   ext |-> "",     decodes |-> FALSE, extracts |-> FALSE],
       [width |-> 300,  height |-> 400, ext |-> "bmp",  decodes |-> TRUE,  extracts |-> TRUE] >>

Xrefs == 1 .. Len(Images)

\* area = w * h (line 137)
ImageArea(x) == Images[x].width * Images[x].height

\* _resize_if_needed(image_bytes, ext, max_dim): the form of the bytes and the ext
\* returned; a failure to open the image is swallowed and the original returned
ResizeIfNeeded(x) ==
    IF /\ Images[x].decodes
       /\ Max(Images[x].width, Images[x].height) > MaxImageDim
    THEN [xref |-> x, form |-> "resized",
          ext |-> IF Images[x].ext \in {"jpg", "jpeg"} THEN "jpeg" ELSE "png"]
    ELSE [xref |-> x, form |-> "original", ext |-> Images[x].ext]

\* _to_data_uri(image_bytes, ext): the data URI, or raised = TRUE when Image.open
\* fails on bytes of another encoding
ToDataUri(b) ==
    IF b.ext \in {"jpg", "jpeg"}
    THEN [raised |-> FALSE, uri |-> [mime |-> "image/jpeg", xref |-> b.xref, form |-> b.form]]
    ELSE IF b.ext = "png"
    THEN [raised |-> FALSE, uri |-> [mime |-> "image/png", xref |-> b.xref, form |-> b.form]]
    ELSE IF Images[b.xref].decodes \/ b.form = "resized"
    THEN [raised |-> FALSE, uri |-> [mime |-> "image/png", xref |-> b.xref, form |-> "reencoded"]]
    ELSE [raised |-> TRUE, uri |-> [mime |-> "", xref |-> b.xref, form |-> b.form]]

\* variant of Candidates: no seen_xrefs, every reference counts
RECURSIVE CandidatesNoDedupe(_, _)
CandidatesNoDedupe(images, seen_xrefs) ==
    IF images = <<>> THEN <<>>
    ELSE LET xref == Head(images)
         IN  IF ~Images[xref].extracts \/ ImageArea(xref) < MinImageArea
             THEN CandidatesNoDedupe(Tail(images), seen_xrefs)
             ELSE <<xref>> \o CandidatesNoDedupe(Tail(images), seen_xrefs)

\* lines 126-142: the candidates of a page, in discovery order: each xref once,
\* those whose extraction raises or whose area is below min_image_area left out
RECURSIVE Candidates(_, _)
Candidates(images, seen_xrefs) ==
    IF images = <<>> THEN <<>>
    ELSE LET xref == Head(images)
         IN  IF xref \in seen_xrefs THEN Candidates(Tail(images), seen_xrefs)
             ELSE IF ~Images[xref].extracts \/ ImageArea(xref) < MinImageArea
             THEN Candidates(Tail(images), seen_xrefs \cup {xref})
             ELSE <<xref>> \o Candidates(Tail(images), seen_xrefs \cup {xref})

\* variant of SortByAreaDesc: the candidates are left in discovery order
SortByAreaDescMissing(cands) == cands

\* candidates.sort(key=area, reverse=True): stable, equal areas keep their order
RECURSIVE SortByAreaDesc(_)
SortByAreaDesc(cands) ==
    IF cands = <<>> THEN <<>>
    ELSE LET n      == Len(cands)
             sorted == SortByAreaDesc(SubSeq(cands, 1, n - 1))
             x      == cands[n]
             before == {i \in 1 .. (n - 1) : ImageArea(sorted[i]) >= ImageArea(x)}
             k      == Cardinality(before)
         IN  SubSeq(sorted, 1, k) \o <<x>> \o SubSeq(sorted, k + 1, n - 1)

\* candidates[: max_images_per_page]
TopCandidates(cands, k) == SubSeq(cands, 1, Min(k, Len(cands)))

\* variant of EncodeLoop: the total is compared after the append, with >
RECURSIVE EncodeLoopLate(_, _, _, _, _)
EncodeLoopLate(top, p, sel, tot, cap) ==
    IF top = <<>> \/ tot > cap
    THEN [selected |-> sel, total |-> tot, raised |-> FALSE]
    ELSE LET u == ToDataUri(ResizeIfNeeded(Head(top)))
         IN  IF u.raised
             THEN [selected |-> sel, total |-> tot, raised |-> TRUE]
             ELSE EncodeLoopLate(Tail(top), p, Append(sel, <<p, u.uri>>), tot + 1, cap)

\* lines 145-153: the loop over the top candidates of page p; an exception of
\* _to_data_uri leaves the loop (and the method)
RECURSIVE EncodeLoop(_, _, _, _, _)
EncodeLoop(top, p, sel, tot, cap) ==
    IF top = <<>> \/ tot >= cap
    THEN [selected |-> sel, total |-> tot, raised |-> FALSE]
    ELSE LET u == ToDataUri(ResizeIfNeeded(Head(top)))
         IN  IF u.raised
             THEN [selected |-> sel, total |-> tot, raised |-> TRUE]
             ELSE EncodeLoop(Tail(top), p, Append(sel, <<p, u.uri>>), tot + 1, cap)

\* entry of extract_embedded_images: selected = [], total = 0
ImageInit ==
    /\ imagePages \in DocsOver(Xrefs, MaxPages, MaxItems)
    /\ max_images_per_page \in 0 .. MaxCap
    /\ max_total_images \in 0 .. MaxCap
    /\ embedded_images = <<>>
    /\ selected = <<>>
    /\ total = 0
    /\ page_index = 0
    /\ ipc = "pages"

\* one iteration of `for page_index in range(len(doc))` that completes
ExtractPage ==
    /\ ipc = "pages"
    /\ page_index < Len(imagePages)
    /\ LET cands == SortByAreaDesc(Candidates(imagePages[page_index + 1], {}))
           top   == TopCandidates(cands, max_images_per_page)
           e     == EncodeLoop(top, page_index, selected, total, max_total_images)
       IN  /\ ~e.raised
           /\ selected' = e.selected
           /\ total' = e.total
           /\ IF e.total >= max_total_images
              THEN ipc' = "assign" /\ page_index' = page_index
              ELSE ipc' = "pages" /\ page_index' = page_index + 1
    /\ UNCHANGED <<imagePages, max_images_per_page, max_total_images, embedded_images,
                   mergeVars, vectorVars, renderVars>>

\* one iteration in which _to_data_uri raises: the exception leaves the method,
\* self.embedded_images is not assigned
ExtractRaise ==
    /\ ipc = "pages"
    /\ page_index < Len(imagePages)
    /\ LET cands == SortByAreaDesc(Candidates(imagePages[page_index + 1], {}))
           top   == TopCandidates(cands, max_images_per_page)
           e     == EncodeLoop(top, page_index, selected, total, max_total_images)
       IN  /\ e.raised
           /\ selected' = e.selected
           /\ total' = e.total
    /\ ipc' = "raised"
    /\ UNCHANGED <<imagePages, max_images_per_page, max_total_images, embedded_images,
                   page_index, mergeVars, vectorVars, renderVars>>

\* the loop is left (exhausted, or by the break of line 155):
\* self.embedded_images = selected
ExtractAssign ==
    /\ \/ ipc = "assign"
       \/ ipc = "pages" /\ page_index = Len(imagePages)
    /\ embedded_images' = selected
    /\ ipc' = "done"
    /\ UNCHANGED <<imagePages, max_images_per_page, max_total_images, selected, total,
                   page_index, mergeVars, vectorVars, renderVars>>

ImageNext == ExtractPage \/ ExtractRaise \/ ExtractAssign

InitImages == ImageInit /\ MergeIdle /\ VectorIdle /\ RenderIdle

SpecImages == InitImages /\ [][ImageNext]_vars

-----------------------------------------------------------------------------
(* detect_vector_regions *)

\* min_vector_area_pt and region_pad_pt (defaults of the fields)
MinVectorAreaPt == 5000
RegionPadPt == 6

\* d.get("rect") of the drawings of a document: two overlapping drawings of area
\* 6000, one of area 7000 apart from them, one below min_vector_area_pt, and a
\* drawing without a rect (falsy: all coordinates 0)
DrawRects ==
    {<<0, 0, 100, 60>>, <<50, 30, 150, 90>>, <<300, 300, 400, 370>>,
     <<0, 0, 50, 50>>, <<0, 0, 0, 0>>}

\* `if not r`: None, or a Rect whose coordinates are all 0
IsFalsy(r) == r = <<0, 0, 0, 0>>

\* lines 201-208: the padded rectangles of the drawings that have a rect of at
\* least min_vector_area_pt
RECURSIVE PaddedRects(_)
PaddedRects(draws) ==
    IF draws = <<>> THEN <<>>
    ELSE LET r == Head(draws)
         IN  IF IsFalsy(r) \/ GetArea(r) < MinVectorAreaPt
             THEN PaddedRects(Tail(draws))
             ELSE <<ExpandRect(r, RegionPadPt)>> \o PaddedRects(Tail(draws))

\* merged.sort(key=area, reverse=True): stable, equal areas keep their order
RECURSIVE SortRectsByAreaDesc(_)
SortRectsByAreaDesc(rs) ==
    IF rs = <<>> THEN <<>>
    ELSE LET n      == Len(rs)
             sorted == SortRectsByAreaDesc(SubSeq(rs, 1, n - 1))
             x      == rs[n]
             before == {i \in 1 .. (n - 1) : GetArea(sorted[i]) >= GetArea(x)}
             k      == Cardinality(before)
         IN  SubSeq(sorted, 1, k) \o <<x>> \o SubSeq(sorted, k + 1, n - 1)

\* variant of KeepLoop: the global cap is not looked at inside the page
RECURSIVE KeepLoopPageCapOnly(_, _, _, _, _, _, _)
KeepLoopPageCapOnly(merged, p, regs, kept, tot, pageCap, totalCap) ==
    IF merged = <<>> \/ kept >= pageCap
    THEN [regions |-> regs, total |-> tot]
    ELSE KeepLoopPageCapOnly(Tail(merged), p, Append(regs, <<p, Head(merged)>>),
                             kept + 1, tot + 1, pageCap, totalCap)

\* lines 213-219: the loop over the merged rectangles of page p
RECURSIVE KeepLoop(_, _, _, _, _, _, _)
KeepLoop(merged, p, regs, kept, tot, pageCap, totalCap) ==
    IF merged = <<>> \/ kept >= pageCap \/ tot >= totalCap
    THEN [regions |-> regs, total |-> tot]
    ELSE KeepLoop(Tail(merged), p, Append(regs, <<p, Head(merged)>>),
                  kept + 1, tot + 1, pageCap, totalCap)

\* entry of detect_vector_regions: regions = [], total = 0
VectorInit ==
    /\ drawPages \in DocsOver(DrawRects, MaxPages, MaxItems)
    /\ max_vector_regions_per_page \in 0 .. MaxCap
    /\ max_vector_regions_total \in 0 .. MaxCap
    /\ vector_regions = <<>>
    /\ regions = <<>>
    /\ vtotal = 0
    /\ vpage_index = 0
    /\ vpc = "pages"

\* an iteration for a page without a rectangle to keep: `if not rects: continue`
DetectSkipPage ==
    /\ vpc = "pages"
    /\ vpage_index < Len(drawPages)
    /\ PaddedRects(drawPages[vpage_index + 1]) = <<>>
    /\ vpage_index' = vpage_index + 1
    /\ UNCHANGED <<drawPages, max_vector_regions_per_page, max_vector_regions_total,
                   vector_regions, regions, vtotal, vpc, mergeVars, imageVars, renderVars>>

\* an iteration for a page with rectangles: merge, sort, keep, and the break of
\* line 221
DetectPage ==
    /\ vpc = "pages"
    /\ vpage_index < Len(drawPages)
    /\ PaddedRects(drawPages[vpage_index + 1]) # <<>>
    /\ LET merged == SortRectsByAreaDesc(MergeRects(PaddedRects(drawPages[vpage_index + 1])))
           k      == KeepLoop(merged, vpage_index, regions, 0, vtotal,
                              max_vector_regions_per_page, max_vector_regions_total)
       IN  /\ regions' = k.regions
           /\ vtotal' = k.total
           /\ IF k.total >= max_vector_regions_total
              THEN vpc' = "assign" /\ vpage_index' = vpage_index
              ELSE vpc' = "pages" /\ vpage_index' = vpage_index + 1
    /\ UNCHANGED <<drawPages, max_vector_regions_per_page, max_vector_regions_total,
                   vector_regions, mergeVars, imageVars, renderVars>>

\* the loop is left: self.vector_regions = regions
DetectAssign ==
    /\ \/ vpc = "assign"
       \/ vpc = "pages" /\ vpage_index = Len(drawPages)
    /\ vector_regions' = regions
    /\ vpc' = "done"
    /\ UNCHANGED <<drawPages, max_vector_regions_per_page, max_vector_regions_total,
                   regions, vtotal, vpage_index, mergeVars, imageVars, renderVars>>

VectorNext == DetectSkipPage \/ DetectPage \/ DetectAssign

InitVector == VectorInit /\ MergeIdle /\ ImageIdle /\ RenderIdle

SpecVector == InitVector /\ [][VectorNext]_vars

-----------------------------------------------------------------------------
(* render_vector_regions *)

\* vector_render_scale (default of the field)
VectorRenderScale == 2

\* rectangles of the regions handed to render_vector_regions
ClipRects == {<<-6, -6, 156, 96>>, <<294, 294, 406, 376>>}

\* the (page_idx, rect) entries vector_regions may hold: the field is public, so
\* the page index may lie outside the document
RegionEntries == (-1 .. MaxPages) \X ClipRects

\* the clip of a region: _to_data_uri(pix.tobytes("png"), "png") of the pixmap of
\* the rectangle at the render scale
ClipUri(rect) == [mime |-> "image/png", clip |-> rect, scale |-> VectorRenderScale]

\* what an earlier call may have left in vector_clips
StaleClips == <<<<0, ClipUri(<<0, 0, 1, 1>>)>>>>

\* variant of InRange: a negative page index is let through
InRangeNoLowerBound(p, n) == ~(p >= n)

\* line 235, negated: the page index is one of the document
InRange(p, n) == ~(p < 0 \/ p >= n)

\* entry of render_vector_regions
RenderInit ==
    /\ vector_regions \in SeqsUpTo(RegionEntries, MaxRegions)
    /\ page_count \in 0 .. MaxPages
    /\ vector_clips \in {<<>>, StaleClips}
    /\ clips = <<>>
    /\ ridx = 0
    /\ rfailed = {}
    /\ rpc = "start"

\* the fields detect_vector_regions works on, apart from vector_regions
DetectIdle ==
    /\ drawPages = <<>> /\ max_vector_regions_per_page = 0 /\ max_vector_regions_total = 0
    /\ regions = <<>> /\ vtotal = 0 /\ vpage_index = 0 /\ vpc = "idle"

renderFrame == <<drawPages, max_vector_regions_per_page, max_vector_regions_total,
                 vector_regions, regions, vtotal, vpage_index, vpc, page_count,
                 mergeVars, imageVars>>

\* lines 227-229: no regions, vector_clips = [] and return
RenderNothing ==
    /\ rpc = "start"
    /\ vector_regions = <<>>
    /\ vector_clips' = <<>>
    /\ rpc' = "done"
    /\ UNCHANGED <<clips, ridx, rfailed, renderFrame>>

\* lines 230-233: the document is opened, out = []
RenderBegin ==
    /\ rpc = "start"
    /\ vector_regions # <<>>
    /\ clips' = <<>>
    /\ ridx' = 1
    /\ rpc' = "loop"
    /\ UNCHANGED <<vector_clips, rfailed, renderFrame>>

\* lines 235-236: the page index is out of range, continue
RenderSkip ==
    /\ rpc = "loop"
    /\ ridx <= Len(vector_regions)
    /\ ~InRange(vector_regions[ridx][1], page_count)
    /\ ridx' = ridx + 1
    /\ UNCHANGED <<vector_clips, clips, rfailed, rpc, renderFrame>>

\* lines 237-242: the region is rasterized and its clip appended
RenderClip ==
    /\ rpc = "loop"
    /\ ridx <= Len(vector_regions)
    /\ InRange(vector_regions[ridx][1], page_count)
    /\ clips' = Append(clips, <<vector_regions[ridx][1], ClipUri(vector_regions[ridx][2])>>)
    /\ ridx' = ridx + 1
    /\ UNCHANGED <<vector_clips, rfailed, rpc, renderFrame>>

\* lines 238-244: get_pixmap (or the encoding) raises, continue
RenderFail ==
    /\ rpc = "loop"
    /\ ridx <= Len(vector_regions)
    /\ InRange(vector_regions[ridx][1], page_count)
    /\ rfailed' = rfailed \cup {ridx}
    /\ ridx' = ridx + 1
    /\ UNCHANGED <<vector_clips, clips, rpc, renderFrame>>

\* line 245: the loop is over, self.vector_clips = out
RenderAssign ==
    /\ rpc = "loop"
    /\ ridx > Len(vector_regions)
    /\ vector_clips' = clips
    /\ rpc' = "done"
    /\ UNCHANGED <<clips, ridx, rfailed, renderFrame>>

RenderNext ==
    RenderNothing \/ RenderBegin \/ RenderSkip \/ RenderClip \/ RenderFail \/ RenderAssign

InitRender == RenderInit /\ DetectIdle /\ MergeIdle /\ ImageIdle

SpecRender == InitRender /\ [][RenderNext]_vars

\* the stepwise loop returns what the function computes
MergeAgrees == mpc = "done" => result = MergeRects(input)

-----------------------------------------------------------------------------
(* Geometry used to state the properties of the merger *)

\* the two rectangles share a region of positive area
PositiveOverlap(a, b) ==
    /\ Max(a[1], b[1]) < Min(a[3], b[3])
    /\ Max(a[2], b[2]) < Min(a[4], b[4])

\* the two rectangles have positive area and share only an edge segment or a corner
TouchOnly(a, b) ==
    /\ a[1] < a[3] /\ a[2] < a[4] /\ b[1] < b[3] /\ b[2] < b[4]
    /\ Max(a[1], b[1]) <= Min(a[3], b[3])
    /\ Max(a[2], b[2]) <= Min(a[4], b[4])
    /\ ~PositiveOverlap(a, b)

\* rectangle o contains rectangle r
Contains(o, r) == o[1] <= r[1] /\ o[2] <= r[2] /\ r[3] <= o[3] /\ r[4] <= o[4]

HasArea(r) == r[1] < r[3] /\ r[2] < r[4]

\* intersection over union of a and b is at least the threshold
IouAtLeastThreshold(a, b) ==
    /\ PositiveOverlap(a, b)
    /\ LET ia == (Min(a[3], b[3]) - Max(a[1], b[1])) * (Min(a[4], b[4]) - Max(a[2], b[2]))
           ua == (a[3] - a[1]) * (a[4] - a[2]) + (b[3] - b[1]) * (b[4] - b[2]) - ia
       IN  ia * IouThresholdDen >= IouThresholdNum * ua

\* no two entries of the list overlap or reach the IoU threshold
PairwiseApart(rs) ==
    \A i, j \in 1 .. Len(rs) :
        i # j => ~PositiveOverlap(rs[i], rs[j]) /\ ~IouAtLeastThreshold(rs[i], rs[j])

\* the entries of rs that contain r
Holders(rs, r) == {j \in 1 .. Len(rs) : Contains(rs[j], r)}

\* a second call on the output merges nothing and returns the same rectangles
IsFixedPoint(rs) ==
    /\ ~MergePass(rs, <<>>, FALSE).changed
    /\ Range(MergeRects(rs)) = Range(rs)
    /\ Len(MergeRects(rs)) = Len(rs)

\* the bounding box of the input rectangles with indices in S
BoundingBox(S) ==
    <<SetMin({input[i][1] : i \in S}), SetMin({input[i][2] : i \in S}),
      -SetMin({-input[i][3] : i \in S}), -SetMin({-input[i][4] : i \in S})>>

\* the input rectangles reachable from those in S through chains of overlapping pairs
RECURSIVE OverlapClosure(_)
OverlapClosure(S) ==
    LET more == S \cup {j \in 1 .. Len(input) :
                            \E i \in S : PositiveOverlap(input[i], input[j])}
    IN  IF more = S THEN S ELSE OverlapClosure(more)

\* the groups of two or more input rectangles connected by pairwise overlap
OverlapGroups ==
    {g \in {OverlapClosure({i}) : i \in 1 .. Len(input)} : Cardinality(g) >= 2}

-----------------------------------------------------------------------------
(* C1 *)

\* C1 (as claimed): when _merge_rects has returned, no two returned rectangles
\* overlap or have IoU >= tau, every input rectangle is contained in exactly one
\* returned rectangle, and the output is a fixed point of _merge_rects.
C1_AsClaimed ==
    mpc = "done" =>
        /\ PairwiseApart(result)
        /\ \A i \in 1 .. Len(input) : Cardinality(Holders(result, input[i])) = 1
        /\ IsFixedPoint(result)

\* C1 (amended): when _merge_rects has returned, no two returned rectangles overlap
\* or have IoU >= tau, every input rectangle is contained in some returned
\* rectangle and every input rectangle of positive area in exactly one, and the
\* output is a fixed point of _merge_rects.
C1_MergeContract ==
    mpc = "done" =>
        /\ PairwiseApart(result)
        /\ \A i \in 1 .. Len(input) :
              /\ Holders(result, input[i]) # {}
              /\ HasArea(input[i]) => Cardinality(Holders(result, input[i])) = 1
        /\ IsFixedPoint(result)

\* a call that merged three rectangles of positive area into fewer, over two passes
\* with merges, and left two rectangles
C1_Witness ==
    /\ mpc = "done"
    /\ Len(input) = 3
    /\ \A i \in 1 .. 3 : HasArea(input[i])
    /\ Len(result) = 2
    /\ passes >= 2

-----------------------------------------------------------------------------
(* C2 *)

\* what the claim says of the passes, but for the bound on their number
PassesShrink ==
    /\ mpc = "inner" => Len(rects) + Len(out) <= passStart
    /\ (mpc = "outer" /\ passes >= 1) =>
          /\ Len(rects) <= passStart
          /\ passMerges >= 1 => (Len(rects) < passStart /\ changed)
          /\ passMerges = 0 => ~changed
    /\ mpc = "done" => passMerges = 0

\* C2 (as claimed): the rectangle count never increases from one pass to the next,
\* strictly decreases in every pass that merges, the loop exits right after the
\* first pass without a merge, and at most len(rects) passes run.
C2_AsClaimed == PassesShrink /\ passes <= Len(input)

\* C2 (amended): the same, with at most max(1, len(rects)) passes: the empty list
\* takes one pass.
C2_Termination == PassesShrink /\ passes <= Max(1, Len(input))

\* a call that came back after as many passes as it was given rectangles (three)
C2_Witness == mpc = "done" /\ Len(input) = 3 /\ passes = 3

-----------------------------------------------------------------------------
(* C8 *)

\* two input rectangles with IoU >= tau lie together in exactly one returned rectangle
IouPairsCovered ==
    \A i, j \in 1 .. Len(input) :
        (i # j /\ IouAtLeastThreshold(input[i], input[j])) =>
            Cardinality(Holders(result, input[i]) \cap Holders(result, input[j])) = 1

\* C8 (as claimed): two rectangles with IoU >= tau end up in exactly one returned
\* rectangle containing both; a group connected by pairwise overlap collapses into
\* exactly one returned rectangle equal to the bounding box of the group; two
\* rectangles without overlap that no chain of overlapping rectangles connects both
\* survive as distinct, unchanged entries.
C8_AsClaimed ==
    mpc = "done" =>
        /\ IouPairsCovered
        /\ \A g \in OverlapGroups :
              Cardinality({j \in 1 .. Len(result) : result[j] = BoundingBox(g)}) = 1
        /\ \A i, j \in 1 .. Len(input) :
              (/\ i # j
               /\ ~PositiveOverlap(input[i], input[j])
               /\ j \notin OverlapClosure({i})) =>
                  \E k, l \in 1 .. Len(result) :
                      k # l /\ result[k] = input[i] /\ result[l] = input[j]

\* C8 (amended): two rectangles with IoU >= tau end up in exactly one returned
\* rectangle containing both; a group connected by pairwise overlap ends up inside
\* exactly one returned rectangle, which contains the bounding box of the group and
\* equals it when the group is the whole input; when no two input rectangles
\* overlap, every input rectangle survives unchanged as an entry of its own.
C8_MergeCorrectness ==
    mpc = "done" =>
        /\ IouPairsCovered
        /\ \A g \in OverlapGroups :
              /\ Cardinality({j \in 1 .. Len(result) :
                                 Contains(result[j], BoundingBox(g))}) = 1
              /\ g = 1 .. Len(input) => result = <<BoundingBox(g)>>
        /\ (\A i, j \in 1 .. Len(input) : i # j => ~PositiveOverlap(input[i], input[j])) =>
              /\ Len(result) = Len(input)
              /\ \A i \in 1 .. Len(input) : result[Len(input) + 1 - i] = input[i]

\* a group of two overlapping rectangles whose bounding box reaches a third
\* rectangle that overlaps neither: the returned rectangle is larger than the
\* bounding box of the group
C8_Witness ==
    /\ mpc = "done"
    /\ Len(input) = 3
    /\ \E g \in OverlapGroups :
          /\ Cardinality(g) = 2
          /\ Len(result) = 1
          /\ result[1] # BoundingBox(g)
          /\ Contains(result[1], BoundingBox(g))

-----------------------------------------------------------------------------
(* C10 *)

\* the rectangle the next iteration of `while rects:` pops
Popped == rects[Len(rects)]

\* the first accumulator entry the popped rectangle overlaps or touches, if any
FirstContact ==
    {i \in 1 .. Len(out) :
        /\ PositiveOverlap(out[i], Popped) \/ TouchOnly(out[i], Popped)
        /\ \A k \in 1 .. (i - 1) :
              ~PositiveOverlap(out[k], Popped) /\ ~TouchOnly(out[k], Popped)}

\* C10 (as claimed): a popped rectangle that only touches an accumulator entry is
\* merged into it (the entry becomes the bounding union, the pass is marked
\* changed), and two touching rectangles never both appear in the output.
C10_AsClaimed ==
    /\ [][(mpc = "inner" /\ rects # <<>>) =>
            \A i \in FirstContact :
                TouchOnly(out[i], Popped) =>
                    /\ changed'
                    /\ out'[i] = <<Min(out[i][1], Popped[1]), Min(out[i][2], Popped[2]),
                                   Max(out[i][3], Popped[3]), Max(out[i][4], Popped[4])>>]_vars
    /\ [](mpc = "done" =>
            \A i, j \in 1 .. Len(result) : i # j => ~TouchOnly(result[i], result[j]))

\* C10 (amended): rectangles that merely touch are not treated as intersecting: an
\* accumulator entry that the popped rectangle only touches is left as it is, a
\* popped rectangle that overlaps no entry is appended without marking the pass as
\* changed, and an input of two touching rectangles returns both.
C10_TouchingNotMerged ==
    /\ [][(mpc = "inner" /\ rects # <<>>) =>
            /\ \A i \in 1 .. Len(out) : TouchOnly(out[i], Popped) => out'[i] = out[i]
            /\ (\A i \in 1 .. Len(out) : ~PositiveOverlap(out[i], Popped)) =>
                  (out' = Append(out, Popped) /\ changed' = changed)]_vars
    /\ []((mpc = "done" /\ Len(input) = 2 /\ TouchOnly(input[1], input[2])) =>
            result = <<input[2], input[1]>>)

\* two rectangles that share only an edge or a corner are both in the output
C10_Witness ==
    /\ mpc = "done"
    /\ \E i, j \in 1 .. Len(result) : i # j /\ TouchOnly(result[i], result[j])

-----------------------------------------------------------------------------
(* Notions used to state the properties of extract_embedded_images *)

\* the entries of a result list that carry page index p
EntriesOfPage(list, p) == {i \in 1 .. Len(list) : list[i][1] = p}

\* the position at which image x is first listed on the page
FirstListed(pageImages, x) == SetMin({i \in 1 .. Len(pageImages) : pageImages[i] = x})

\* the pixel area of the image behind a result entry
EntryArea(e) == Images[e[2].xref].width * Images[e[2].xref].height

\* the qualifying images of page p (0-based): distinct, extractable, area >= min_image_area
Qualifying(p) ==
    {x \in Range(imagePages[p + 1]) :
        Images[x].extracts /\ Images[x].width * Images[x].height >= MinImageArea}

RECURSIVE SumOverPages(_, _)
SumOverPages(F(_), n) == IF n = 0 THEN 0 ELSE F(n - 1) + SumOverPages(F, n - 1)

QualifyingTotal ==
    LET count(p) == Cardinality(Qualifying(p)) IN SumOverPages(count, Len(imagePages))

\* what the per-page caps leave of the qualifying images
WithinPageCaps ==
    LET count(p) == Min(max_images_per_page, Cardinality(Qualifying(p)))
    IN  SumOverPages(count, Len(imagePages))

-----------------------------------------------------------------------------
(* C3 *)

ImageCapsHold(list) ==
    /\ Len(list) <= max_total_images
    /\ \A p \in 0 .. MaxPages : Cardinality(EntriesOfPage(list, p)) <= max_images_per_page

\* C3: embedded_images (and the running selection) never holds more than
\* max_total_images entries, nor more than max_images_per_page entries of one
\* page, and once the running total has reached max_total_images nothing more is
\* selected.
C3_ImageCaps ==
    /\ [](ImageCapsHold(embedded_images) /\ ImageCapsHold(selected) /\ total = Len(selected))
    /\ [][total >= max_total_images => selected' = selected]_vars

\* the total cap was reached while a later page still had candidates
C3_Witness ==
    /\ ipc = "done"
    /\ max_total_images = 2
    /\ Len(embedded_images) = 2
    /\ \E q \in 0 .. (Len(imagePages) - 1) :
          /\ q > page_index
          /\ Qualifying(q) # {}

-----------------------------------------------------------------------------
(* C5 *)

\* C5 (as claimed): extract_embedded_images never raises because of one bad
\* image: the bad candidate alone is left out and a result list is assigned.
C5_AsClaimed ==
    /\ ipc # "raised"
    /\ ipc = "done" =>
          \A i \in 1 .. Len(embedded_images) :
              Images[embedded_images[i][2].xref].extracts

-----------------------------------------------------------------------------
(* C6 *)

\* C6 (as claimed): embedded_images is ordered by page index ascending and, within
\* a page, in the order in which the images are listed on the page.
C6_AsClaimed ==
    ipc = "done" =>
        \A i, j \in 1 .. Len(embedded_images) :
            i < j =>
                LET a == embedded_images[i]
                    b == embedded_images[j]
                IN  \/ a[1] < b[1]
                    \/ /\ a[1] = b[1]
                       /\ FirstListed(imagePages[a[1] + 1], a[2].xref)
                            < FirstListed(imagePages[a[1] + 1], b[2].xref)

\* C6 (amended): embedded_images is ordered by page index ascending and, within a
\* page, by pixel area descending, images of equal area in the order in which they
\* are listed on the page.
C6_Ordering ==
    ipc = "done" =>
        \A i, j \in 1 .. Len(embedded_images) :
            i < j =>
                LET a == embedded_images[i]
                    b == embedded_images[j]
                IN  \/ a[1] < b[1]
                    \/ /\ a[1] = b[1]
                       /\ \/ EntryArea(a) > EntryArea(b)
                          \/ /\ EntryArea(a) = EntryArea(b)
                             /\ FirstListed(imagePages[a[1] + 1], a[2].xref)
                                  < FirstListed(imagePages[a[1] + 1], b[2].xref)

\* a page whose larger image is listed after a smaller one: the larger comes first
\* in embedded_images
C6_Witness ==
    /\ ipc = "done"
    /\ \E i, j \in 1 .. Len(embedded_images) :
          /\ i < j
          /\ embedded_images[i][1] = embedded_images[j][1]
          /\ FirstListed(imagePages[embedded_images[i][1] + 1], embedded_images[i][2].xref)
               > FirstListed(imagePages[embedded_images[i][1] + 1], embedded_images[j][2].xref)

-----------------------------------------------------------------------------
(* C7 *)

\* within a page the largest qualifying images are the ones taken
LargestFirst ==
    \A i \in 1 .. Len(embedded_images) :
        LET e == embedded_images[i]
        IN  \A x \in Qualifying(e[1]) :
                (\A k \in EntriesOfPage(embedded_images, e[1]) :
                     embedded_images[k][2].xref # x)
                    => EntryArea(e) >= Images[x].width * Images[x].height

\* a page contributes only after every page before it has given all that the
\* per-page cap allows
PagesInOrder ==
    \A p, q \in 0 .. (Len(imagePages) - 1) :
        (p < q /\ EntriesOfPage(embedded_images, q) # {}) =>
            Cardinality(EntriesOfPage(embedded_images, p))
                = Min(max_images_per_page, Cardinality(Qualifying(p)))

\* C7 (as claimed): a document with more qualifying images than max_total_images
\* yields exactly max_total_images results, from pages in document order and the
\* largest images of a page first.
C7_AsClaimed ==
    (ipc = "done" /\ QualifyingTotal > max_total_images) =>
        /\ Len(embedded_images) = max_total_images
        /\ LargestFirst
        /\ PagesInOrder

\* C7 (amended): when extract_embedded_images returns, it yields
\* min(max_total_images, sum over the pages of min(max_images_per_page, qualifying
\* images of the page)) results, from pages in document order and the largest
\* images of a page first; when it raises (an image of another encoding that cannot
\* be decoded was selected), embedded_images is left empty.
C7_Saturation ==
    /\ ipc = "done" =>
          /\ Len(embedded_images) = Min(max_total_images, WithinPageCaps)
          /\ LargestFirst
          /\ PagesInOrder
    /\ ipc = "raised" =>
          /\ embedded_images = <<>>
          /\ \E x \in Qualifying(page_index) :
                ~Images[x].decodes /\ Images[x].ext \notin {"jpg", "jpeg", "png"}

\* more qualifying images than max_total_images, yet fewer results: the per-page
\* cap holds the page back
C7_Witness ==
    /\ ipc = "done"
    /\ max_images_per_page >= 1
    /\ QualifyingTotal > max_total_images
    /\ Len(embedded_images) < max_total_images

-----------------------------------------------------------------------------
(* C4 *)

\* the entries of list on pages before p
RECURSIVE EntriesBefore(_, _)
EntriesBefore(list, p) ==
    IF p = 0 THEN 0
    ELSE Cardinality(EntriesOfPage(list, p - 1)) + EntriesBefore(list, p - 1)

VectorCapsHold(list) ==
    /\ Len(list) <= max_vector_regions_total
    /\ \A p \in 0 .. MaxPages :
          /\ Cardinality(EntriesOfPage(list, p)) <= max_vector_regions_per_page
          /\ Cardinality(EntriesOfPage(list, p))
               <= Max(0, max_vector_regions_total - EntriesBefore(list, p))

\* C4: vector_regions (and the running list) never holds more than
\* max_vector_regions_total entries, nor more entries of one page than
\* min(max_vector_regions_per_page, max_vector_regions_total minus the entries of
\* the pages before it), and once the running total has reached the global cap
\* nothing more is kept.
C4_VectorCaps ==
    /\ [](VectorCapsHold(vector_regions) /\ VectorCapsHold(regions) /\ vtotal = Len(regions))
    /\ [][vtotal >= max_vector_regions_total => regions' = regions]_vars

\* the global cap stopped a page in the middle: it had two merged regions and a
\* per-page cap of two, and kept one
C4_Witness ==
    /\ vpc = "done"
    /\ max_vector_regions_per_page = 2
    /\ \E p \in 0 .. (Len(drawPages) - 1) :
          /\ Len(MergeRects(PaddedRects(drawPages[p + 1]))) = 2
          /\ Cardinality(EntriesOfPage(vector_regions, p)) = 1
          /\ EntriesBefore(vector_regions, p) = 1

-----------------------------------------------------------------------------
(* C9 *)

\* the regions up to position n whose page index is one of the document and whose
\* rasterization did not fail, as the clips they give
RECURSIVE ClipsOfKept(_)
ClipsOfKept(n) ==
    IF n = 0 THEN <<>>
    ELSE LET r == vector_regions[n]
         IN  IF r[1] >= 0 /\ r[1] < page_count /\ n \notin rfailed
             THEN Append(ClipsOfKept(n - 1), <<r[1], [mime |-> "image/png", clip |-> r[2],
                                                      scale |-> VectorRenderScale]>>)
             ELSE ClipsOfKept(n - 1)

\* C9: when render_vector_regions has returned, vector_clips holds one clip, in
\* the same order and with the same page index, for every region but those whose
\* page index is out of range or whose rasterization failed; it is empty when
\* vector_regions is.
C9_RenderDrops ==
    rpc = "done" =>
        /\ vector_clips = ClipsOfKept(Len(vector_regions))
        /\ Len(vector_clips) <= Len(vector_regions)
        /\ vector_regions = <<>> => vector_clips = <<>>

\* of two regions the first was dropped (its rasterization failed, or its page
\* index is out of range) and the second still gave its clip
C9_Witness ==
    /\ rpc = "done"
    /\ Len(vector_regions) = 2
    /\ Len(vector_clips) = 1
    /\ \/ rfailed = {1}
       \/ vector_regions[1][1] \notin 0 .. (page_count - 1)

-----------------------------------------------------------------------------
(* C11 *)

\* how many entries of the list equal r
Copies(rs, r) == Cardinality({j \in 1 .. Len(rs) : rs[j] = r})

\* C11: whatever the order in which the rectangles are popped within each pass and
\* whichever matching accumulator entry a popped rectangle is merged into, the
\* rectangles returned are those _merge_rects returns for the same input (popping
\* from the back, merging into the first match): the same rectangles, each as many
\* times.
C11_OrderIndependent ==
    mpc = "done" =>
        /\ Range(result) = Range(MergeRects(input))
        /\ \A r \in Range(result) : Copies(result, r) = Copies(MergeRects(input), r)

\* a call that consumed three rectangles in another order than the code's, merged
\* some of them, and returned its two rectangles in another list order than
\* _merge_rects does
C11_Witness ==
    /\ mpc = "done"
    /\ Len(input) = 3
    /\ Len(result) = 2
    /\ passes >= 2
    /\ result # MergeRects(input)

-----------------------------------------------------------------------------
(* C12 *)

\* the adjacency predicate of the clustering: overlap or IoU >= tau
Adjacent(a, b) == PositiveOverlap(a, b) \/ IouAtLeastThreshold(a, b)

\* the input rectangles reachable from those in S through chains of adjacent pairs
RECURSIVE AdjacencyClosure(_)
AdjacencyClosure(S) ==
    LET more == S \cup {j \in 1 .. Len(input) : \E i \in S : Adjacent(input[i], input[j])}
    IN  IF more = S THEN S ELSE AdjacencyClosure(more)

\* the connected components of the adjacency graph of the input (union-find
\* clustering), as sets of positions of the input list
Components == {AdjacencyClosure({i}) : i \in 1 .. Len(input)}

\* the input rectangles that lie in entry j of the result
Members(j) == {i \in 1 .. Len(input) : Contains(result[j], input[i])}

ComponentBoxesApart ==
    \A c, d \in Components :
        c # d => ~PositiveOverlap(BoundingBox(c), BoundingBox(d))

\* C12 (as claimed): the partition of the input that the returned rectangles
\* induce is the set of connected components of the adjacency graph (two input
\* rectangles of positive area lie in a common returned rectangle exactly when
\* they are in one component), and the returned rectangles are the bounding boxes
\* of the components.
C12_AsClaimed ==
    mpc = "done" =>
        /\ \A i, k \in 1 .. Len(input) :
              (HasArea(input[i]) /\ HasArea(input[k])) =>
                  ((k \in AdjacencyClosure({i}))
                      <=> (Holders(result, input[i]) \cap Holders(result, input[k]) # {}))
        /\ \A c \in Components : \E j \in 1 .. Len(result) : result[j] = BoundingBox(c)
        /\ \A j \in 1 .. Len(result) : \E c \in Components : result[j] = BoundingBox(c)

\* C12 (amended): the returned rectangles induce a partition that the connected
\* components refine: every component lies inside a returned rectangle (exactly
\* one when it has positive area), every returned rectangle is the bounding box of
\* the input rectangles inside it, and there are as many returned rectangles as
\* components, namely the bounding boxes of the components, exactly when the
\* bounding boxes of different components do not overlap; otherwise components
\* whose bounding boxes overlap are merged as well and fewer rectangles return.
C12_ClusteringOfBoxes ==
    mpc = "done" =>
        /\ \A c \in Components :
              LET holders == {j \in 1 .. Len(result) : Contains(result[j], BoundingBox(c))}
              IN  /\ holders # {}
                  /\ HasArea(BoundingBox(c)) => Cardinality(holders) = 1
        /\ \A j \in 1 .. Len(result) : result[j] = BoundingBox(Members(j))
        /\ Len(result) <= Cardinality(Components)
        /\ ComponentBoxesApart <=> Len(result) = Cardinality(Components)
        /\ ComponentBoxesApart =>
              \A c \in Components : \E j \in 1 .. Len(result) : result[j] = BoundingBox(c)

\* two components (a pair of overlapping rectangles, and a rectangle that overlaps
\* neither of them) returned as one rectangle
C12_Witness ==
    /\ mpc = "done"
    /\ Len(input) = 3
    /\ \A i \in 1 .. 3 : HasArea(input[i])
    /\ Cardinality(Components) = 2
    /\ Len(result) = 1

====
